---- MODULE Spec2Model ----
(***************************************************************************)
(* Model of the prescription analyzer of healthmate                         *)
(* (src/analizerend/analizer.py) and of the endpoint that calls it          *)
(* (src/main.py).                                                           *)
(*                                                                          *)
(* Representation.                                                          *)
(*  - A Python str is a sequence of chunks; a chunk is a TLA+ string that   *)
(*    stands for a run of characters without internal word boundary of     *)
(*    interest (an OCR word, or a literal of the source).  The chunks of an *)
(*    OCR text are separated by the "\n" the code puts between lines; the   *)
(*    chunks of an f-string are contiguous.  "" is <<>>.                    *)
(*  - A confidence is the rational sum/n, in tenths of a percent (1000 is   *)
(*    the float 100.0): the code divides a sum of line confidences by their *)
(*    number and compares the unrounded quotient with 70.  The field short  *)
(*    tells that the float the code computes is just under that rational.   *)
(*  - None is the handle 0; engine handles are 1, 2, ...                    *)
(*  - The OCR engine (PaddleOCR) and the similarity search (fuzzywuzzy) are *)
(*    libraries: what the engine returns is an input of the action, what    *)
(*    process.extractOne returns for the words of Words is tabulated from   *)
(*    fuzz.ratio over the whole KNOWN_DRUGS set.                            *)
(***************************************************************************)
EXTENDS Integers, Sequences, FiniteSets, TLC

\* ------------------------------------------------------------------ bounds
MaxCalls == 3      \* calls of analyze_prescription_image in one behaviour
MaxLines == 2      \* lines the OCR engine returns for one image
NumThreads == 2    \* request threads
MaxMeds == 3       \* medications in one call of check_drug_interactions
MaxSignups == 4    \* signup requests in one behaviour
Threads == 1..NumThreads

\* ------------------------------------------------------- program constants
None == 0             \* analizer.py:14  CUSTOM_OCR_READER = None
MIN_WORD_LEN == 4     \* analizer.py:200 len(word) < 4
THRESHOLD == 75       \* analizer.py:204 match_result[1] > 75
SNIPPET_LEN == 200    \* analizer.py:285 raw_text[:200]
CONF_FLOOR == 700     \* analizer.py:300 confidence < 70      (tenths of %)
STARTING_UID == 10000 \* main.py:31
LOW_SCORE == 350      \* analizer.py:301 accuracy_score = 35.0 (tenths of %)

\* ------------------------------------------------------------ static data
\* The OCR words of the model.  The entries of MEDICATION_DICT below are all
\* the entries a text over these words can match, before or after
\* correction.
Words == {"Ibuprofen", "lisinopri1", "morning", "metformin500mgtab", "500"}

\* Line confidences the engine reports, in thousandths (0.5, 0.7, 1.0).
Confidences == {500, 700, 1000}

MEDICATION_DICT ==
  [key \in {"ibuprofen", "lisinopril", "metformin"} |->
     CASE key = "ibuprofen" ->
            <<"ibuprofin", "ibu", "ibuprofen", "advil", "motrin", "nurofen",
              "brufen", "ibugesic", "combiflam">>
       [] key = "lisinopril" ->
            <<"lisin", "prinivil", "zestril", "qbrelis", "listril", "hipril",
              "zestopril">>
       [] key = "metformin" ->
            <<"metform", "glucophage", "fortamet", "glumetza", "riomet",
              "glycomet", "obimet", "gluformin", "glyciphage">>]

Range(s) == {s[i] : i \in 1..Len(s)}

KNOWN_DRUGS ==
  DOMAIN MEDICATION_DICT \cup
  UNION {Range(MEDICATION_DICT[key]) : key \in DOMAIN MEDICATION_DICT}

\* '-'.join([a, b]) for one-chunk strings a and b.
Join(a, b) == a \o <<"-">> \o b

MOCK_INTERACTIONS ==
  [k \in {<<"ibuprofen", "-", "lisinopril">>, <<"amoxicillin", "-", "aspirin">>,
          <<"statin", "-", "grapefruit">>, <<"metformin", "-", "alcohol">>} |->
     CASE k = <<"ibuprofen", "-", "lisinopril">> ->
            "Major interaction: Ibuprofen can reduce the effectiveness of Lisinopril for blood pressure control."
       [] k = <<"amoxicillin", "-", "aspirin">> ->
            "Minor interaction: May increase the risk of stomach irritation."
       [] k = <<"statin", "-", "grapefruit">> ->
            "Major interaction: Statins (e.g., Atorvastatin) combined with grapefruit can dangerously increase drug levels."
       [] k = <<"metformin", "-", "alcohol">> ->
            "Moderate interaction: Alcohol consumption can increase the risk of lactic acidosis with Metformin."]

\* --------------------------------------------------------- str primitives
\* str.lower() of a chunk: the chunks with an upper-case letter are listed.
LowerChunk(c) ==
  CASE c = "Ibuprofen" -> "ibuprofen"
    [] c = "Lisinopril" -> "lisinopril"
    [] c = "Metformin" -> "metformin"
    [] c = "Motrin" -> "motrin"
    [] c = "Atorvastatin" -> "atorvastatin"
    [] c = "Grapefruit" -> "grapefruit"
    [] c = "Alcohol" -> "alcohol"
    [] c = "Could not extract medicine names. Snippet: " ->
         "could not extract medicine names. snippet: "
    [] OTHER -> c

lower(s) == [i \in 1..Len(s) |-> LowerChunk(s[i])]

\* First character upper-cased (the chunk is already lower case).
UpperFirst(c) ==
  CASE c = "ibuprofen" -> "Ibuprofen"
    [] c = "lisinopril" -> "Lisinopril"
    [] c = "metformin" -> "Metformin"
    [] c = "motrin" -> "Motrin"
    [] c = "atorvastatin" -> "Atorvastatin"
    [] c = "grapefruit" -> "Grapefruit"
    [] c = "alcohol" -> "Alcohol"
    [] OTHER -> c

\* str.capitalize(): first character upper, the rest lower.
capitalize(s) ==
  IF s = <<>> THEN s
  ELSE <<UpperFirst(LowerChunk(s[1]))>> \o lower(Tail(s))

\* len() of a chunk, in characters.
CharLen(c) ==
  CASE c \in {"500"} -> 3
    [] c \in {"motrin"} -> 6
    [] c \in {"morning"} -> 7
    [] c \in {"Ibuprofen", "ibuprofen", "metformin"} -> 9
    [] c \in {"lisinopri1", "lisinopril"} -> 10
    [] c \in {"metformin500mgtab"} -> 17

RECURSIVE SumLen(_)
SumLen(s) == IF s = <<>> THEN 0 ELSE CharLen(Head(s)) + SumLen(Tail(s))

\* len() of an OCR text: its words and the separators between them.
TextLen(s) == IF s = <<>> THEN 0 ELSE SumLen(s) + (Len(s) - 1)

\* str.isdigit() of a word.
isdigit(c) == c \in {"500"}

\* sub in c, for a chunk c and the substrings the code looks for.
InChunk(sub, c) ==
  \/ sub = "metformin" /\ c \in {"metformin", "metformin500mgtab"}
  \/ sub = "statin" /\ c \in {"atorvastatin", "statin"}

\* sub in s
contains(s, sub) == \E i \in 1..Len(s) : InChunk(sub, s[i])

\* s.startswith(prefix), decided by the first chunk of s.
startswith(s, prefix) ==
  /\ s # <<>>
  /\ \/ prefix = "OCR Engine Failed" /\ s[1] = "OCR Engine Failed Initialization."
     \/ prefix = "PaddleOCR Error" /\ s[1] = "PaddleOCR Error: "
     \/ prefix = "Could not extract"
          /\ s[1] = "Could not extract medicine names. Snippet: "

\* Python's order on the one-chunk strings the code sorts (code points:
\* upper case before lower case).
ORDER == <<"Alcohol", "Atorvastatin", "Grapefruit", "Ibuprofen", "Lisinopril",
           "Metformin", "Motrin",
           "alcohol", "atorvastatin", "grapefruit", "ibuprofen", "lisinopril",
           "metformin", "motrin">>

Rank(c) == CHOOSE i \in 1..Len(ORDER) : ORDER[i] = c

StrLess(a, b) == Rank(a[1]) < Rank(b[1])

\* sorted(S) for a collection S of one-chunk strings
RECURSIVE sorted(_)
sorted(S) ==
  IF S = {} THEN <<>>
  ELSE LET m == CHOOSE x \in S : \A y \in S \ {x} : StrLess(x, y)
       IN <<m>> \o sorted(S \ {m})

\* ------------------------------------------------------------ OCR adapter
\* What reader.ocr(image_path) does: it raises, or it returns lines.  A line
\* is well formed when it passes the shape test of analizer.py:171
\* (len(line) >= 2, line[1] a list of two elements).
Line == [text : Words, conf : Confidences, wellformed : {TRUE}]
          \cup {[text |-> "500", conf |-> 1000, wellformed |-> FALSE]}

RECURSIVE SeqsUpTo(_, _)
SeqsUpTo(S, n) ==
  IF n = 0 THEN {<<>>}
  ELSE LET shorter == SeqsUpTo(S, n - 1)
       IN shorter \cup {Append(s, x) : s \in {q \in shorter : Len(q) = n - 1}, x \in S}

EngineOutcomes ==
  {[raises |-> TRUE, lines |-> <<>>]} \cup
  {[raises |-> FALSE, lines |-> ls] : ls \in SeqsUpTo(Line, MaxLines)}

RECURSIVE SumConf(_)
SumConf(ls) == IF ls = <<>> THEN 0 ELSE Head(ls).conf + SumConf(Tail(ls))

\* The float 0.0
ZERO == [sum |-> 0, n |-> 1, short |-> FALSE]

\* Float arithmetic: sum([0.7, 0.7, 0.7]) / 3 * 100 is 69.99999999999999.
\* For every other choice of up to four confidences of the model the float
\* compares with 70 and rounds as the exact quotient does.
float_short(confidence_scores) ==
  /\ Len(confidence_scores) = 3
  /\ \A i \in 1..3 : confidence_scores[i].conf = 700

\* Variant: the sum is not divided by the number of lines.
avg_confidence_undivided(confidence_scores) ==
  IF confidence_scores # <<>>
    THEN [sum |-> SumConf(confidence_scores), n |-> 1, short |-> FALSE]
    ELSE ZERO

\* Variant: full confidence when there is no line.
avg_confidence_default_full(confidence_scores) ==
  IF confidence_scores # <<>>
    THEN [sum |-> SumConf(confidence_scores), n |-> Len(confidence_scores),
          short |-> float_short(confidence_scores)]
    ELSE [sum |-> 1000, n |-> 1, short |-> FALSE]

\* analizer.py:175  sum(confidence_scores) / len(confidence_scores), or 0.0
avg_confidence(confidence_scores) ==
  IF confidence_scores # <<>>
    THEN [sum |-> SumConf(confidence_scores), n |-> Len(confidence_scores),
          short |-> float_short(confidence_scores)]
    ELSE ZERO

\* confidence < limit, both in tenths of a percent
Below(confidence, limit) ==
  \/ confidence.sum < limit * confidence.n
  \/ confidence.sum = limit * confidence.n /\ confidence.short

\* round(confidence, 1), in tenths of a percent.  The quotients of the model
\* are never half-way between two tenths, and a short float rounds as its
\* quotient.
round1(confidence) ==
  (2 * confidence.sum + confidence.n) \div (2 * confidence.n)

\* Variant: no test of the reader; reader.ocr on None raises inside the try.
extract_text_paddle_single_pass_unchecked(rd, engine) ==
  IF rd = None \/ engine.raises
    THEN [raised |-> FALSE, text |-> <<"PaddleOCR Error: ", "engine failure">>,
          confidence |-> ZERO]
  ELSE LET kept == SelectSeq(engine.lines, LAMBDA l : l.wellformed)
       IN [raised |-> FALSE,
           text |-> [i \in 1..Len(kept) |-> kept[i].text],
           confidence |-> avg_confidence(kept)]

\* Variant: the exception of reader.ocr is not caught.
extract_text_paddle_single_pass_uncaught(rd, engine) ==
  IF rd = None
    THEN [raised |-> FALSE, text |-> <<"OCR Engine Failed Initialization.">>,
          confidence |-> ZERO]
  ELSE IF engine.raises
    THEN [raised |-> TRUE, text |-> <<>>, confidence |-> ZERO]
  ELSE LET kept == SelectSeq(engine.lines, LAMBDA l : l.wellformed)
       IN [raised |-> FALSE,
           text |-> [i \in 1..Len(kept) |-> kept[i].text],
           confidence |-> avg_confidence(kept)]

\* extract_text_paddle_single_pass, after the reader is obtained: what the
\* function returns (raised is FALSE: every exception is caught at line 179).
extract_text_paddle_single_pass(rd, engine) ==
  IF rd = None
    THEN [raised |-> FALSE, text |-> <<"OCR Engine Failed Initialization.">>,
          confidence |-> ZERO]
  ELSE IF engine.raises
    THEN [raised |-> FALSE, text |-> <<"PaddleOCR Error: ", "engine failure">>,
          confidence |-> ZERO]
  ELSE LET kept == SelectSeq(engine.lines, LAMBDA l : l.wellformed)
       IN [raised |-> FALSE,
           text |-> [i \in 1..Len(kept) |-> kept[i].text],
           confidence |-> avg_confidence(kept)]

\* -------------------------------------------------------- fuzzy corrector
\* process.extractOne(word, list(KNOWN_DRUGS), scorer=fuzz.ratio) for the
\* lower-cased words of Words: the best scoring term of the whole lexicon
\* and its score (no word of Words has two best terms).
extractOne(word) ==
  CASE word = "ibuprofen" -> [term |-> "ibuprofen", score |-> 100]
    [] word = "lisinopri1" -> [term |-> "lisinopril", score |-> 90]
    [] word = "morning" -> [term |-> "motrin", score |-> 77]
    [] word = "metformin500mgtab" -> [term |-> "metformin", score |-> 69]

\* re.findall(r'\b\w+\b', text.lower())
words_of(text) == Range(lower(text))

\* The words for which the loop of line 199 reaches process.extractOne
eligible(word) == ~(CharLen(word) < MIN_WORD_LEN \/ isdigit(word))

\* pattern.sub(correct_term, corrected_text, 1): the first whole-word,
\* case-insensitive occurrence of word is replaced.
sub_first(text, word, term) ==
  IF \E i \in 1..Len(text) : LowerChunk(text[i]) = word
    THEN LET k == CHOOSE i \in 1..Len(text) :
                    /\ LowerChunk(text[i]) = word
                    /\ \A j \in 1..(i - 1) : LowerChunk(text[j]) # word
         IN [text EXCEPT ![k] = term]
    ELSE text

\* One iteration of the loop of lines 199-210
correct_word(word, corrected_text) ==
  IF ~eligible(word) THEN corrected_text
  ELSE LET match_result == extractOne(word)
       IN IF match_result.score > THRESHOLD
            THEN sub_first(corrected_text, word, match_result.term)
            ELSE corrected_text

\* The loop over set(words); no replacement of the model produces a word
\* that another iteration replaces, so the iteration order does not matter.
RECURSIVE correct_all(_, _)
correct_all(ws, corrected_text) ==
  IF ws = {} THEN corrected_text
  ELSE LET word == CHOOSE w \in ws : TRUE
       IN correct_all(ws \ {word}, correct_word(word, corrected_text))

apply_medical_dictionary_correction(text) ==
  IF text = <<>> THEN text ELSE correct_all(words_of(text), text)

\* ---------------------------------------------------- medication resolver
\* re.search(r'\b' + term + r'\b', text_lower): the terms of the model are
\* single words, so a match is a word of the text equal to the term.
search(term, text_lower) == term \in Range(text_lower)

\* Variant: the matched term is added instead of the key.
extract_medications_from_text_term(text) ==
  LET text_lower == lower(text)
      terms(k) == <<k>> \o MEDICATION_DICT[k]
      first(k) == CHOOSE i \in 1..Len(terms(k)) :
                    /\ search(terms(k)[i], text_lower)
                    /\ \A j \in 1..(i - 1) : ~search(terms(k)[j], text_lower)
  IN {capitalize(<<terms(key)[first(key)]>>) :
        key \in {k \in DOMAIN MEDICATION_DICT :
                   \E term \in {k} \cup Range(MEDICATION_DICT[k]) :
                      search(term, text_lower)}}

\* The set the function builds; list(medications) orders it arbitrarily and
\* the caller sorts it.
extract_medications_from_text(text) ==
  LET text_lower == lower(text)
  IN {capitalize(<<key>>) :
        key \in {k \in DOMAIN MEDICATION_DICT :
                   \E term \in {k} \cup Range(MEDICATION_DICT[k]) :
                      search(term, text_lower)}}

\* ---------------------------------------------------- interaction checker
\* The pairs (i, j), i < j, in the order the nested loops visit them.
RECURSIVE pair_scan(_, _, _)
pair_scan(i, j, n) ==
  IF i > n THEN <<>>
  ELSE IF j > n THEN pair_scan(i + 1, i + 2, n)
  ELSE <<(<<i, j>>)>> \o pair_scan(i, j + 1, n)

\* Variant: the key joins the two names in the order they come.
interaction_key_unsorted(med1, med2) == Join(med1, med2)

\* sorted([med1, med2]) joined by '-'
interaction_key(med1, med2) ==
  IF StrLess(med2, med1) THEN Join(med2, med1) ELSE Join(med1, med2)

pair_warning(med1, med2) ==
  <<"Interaction (">> \o capitalize(med1) \o <<" + ">> \o capitalize(med2)
     \o <<"): ", MOCK_INTERACTIONS[interaction_key(med1, med2)]>>

RECURSIVE pair_warnings(_, _)
pair_warnings(meds_lower, pairs) ==
  IF pairs = <<>> THEN <<>>
  ELSE LET med1 == meds_lower[Head(pairs)[1]]
           med2 == meds_lower[Head(pairs)[2]]
       IN (IF interaction_key(med1, med2) \in DOMAIN MOCK_INTERACTIONS
             THEN <<pair_warning(med1, med2)>> ELSE <<>>)
          \o pair_warnings(meds_lower, Tail(pairs))

\* The loop of lines 248-252 from position i on
RECURSIVE general_warnings(_, _)
general_warnings(meds_lower, i) ==
  IF i > Len(meds_lower) THEN <<>>
  ELSE LET med == meds_lower[i]
       IN (IF /\ contains(med, "statin")
              /\ \E keyword \in {"grapefruit", "juice"} :
                    \E m \in 1..Len(meds_lower) : meds_lower[m] = <<keyword>>
             THEN <<(<<"Major Alert: ",
                       MOCK_INTERACTIONS[<<"statin", "-", "grapefruit">>]>>)>>
             ELSE <<>>)
          \o (IF contains(med, "metformin")
                THEN <<(<<"General Warning: ",
                          MOCK_INTERACTIONS[<<"metformin", "-", "alcohol">>]>>)>>
                ELSE <<>>)
          \o general_warnings(meds_lower, i + 1)

\* Variant: only neighbouring positions are paired.
check_drug_interactions_adjacent(medications) ==
  LET meds_lower == [i \in 1..Len(medications) |-> lower(medications[i])]
      neighbours(p) == p[2] = p[1] + 1
  IN pair_warnings(meds_lower,
                   SelectSeq(pair_scan(1, 2, Len(meds_lower)), neighbours))
       \o general_warnings(meds_lower, 1)

\* Variant: each keyword rule is decided once for the whole list.
check_drug_interactions_rule_once(medications) ==
  LET meds_lower == [i \in 1..Len(medications) |-> lower(medications[i])]
      positions == 1..Len(meds_lower)
  IN pair_warnings(meds_lower, pair_scan(1, 2, Len(meds_lower)))
       \o (IF /\ \E i \in positions : contains(meds_lower[i], "statin")
               /\ \E keyword \in {"grapefruit", "juice"} :
                     \E m \in positions : meds_lower[m] = <<keyword>>
              THEN <<(<<"Major Alert: ",
                        MOCK_INTERACTIONS[<<"statin", "-", "grapefruit">>]>>)>>
              ELSE <<>>)
       \o (IF \E i \in positions : contains(meds_lower[i], "metformin")
              THEN <<(<<"General Warning: ",
                        MOCK_INTERACTIONS[<<"metformin", "-", "alcohol">>]>>)>>
              ELSE <<>>)

check_drug_interactions(medications) ==
  LET meds_lower == [i \in 1..Len(medications) |-> lower(medications[i])]
  IN pair_warnings(meds_lower, pair_scan(1, 2, Len(meds_lower)))
       \o general_warnings(meds_lower, 1)

\* ------------------------------------------------------------ main analyzer
\* analizer.py:263-268
results_dict0 ==
  [medications |-> <<>>, interactions |-> <<>>,
   raw_text_snippet |-> <<"Analysis Failed.">>, accuracy_score |-> 0]

\* analizer.py:285.  The texts of the model are shorter than SNIPPET_LEN
\* characters; a longer text keeps its first characters and gets "...".
raw_text_snippet(raw_text) ==
  IF TextLen(raw_text) > SNIPPET_LEN
    THEN <<"raw_text[:200]", "...">>
    ELSE raw_text

\* Variant: confidence <= 70 instead of confidence < 70.
accuracy_score_inclusive(confidence, medications) ==
  IF medications = {} /\ confidence.sum <= CONF_FLOOR * confidence.n
    THEN LOW_SCORE
    ELSE round1(confidence)

\* Variant: the low score is set outside the test of the medications.
accuracy_score_unconditional(confidence, medications) ==
  IF Below(confidence, CONF_FLOOR)
    THEN LOW_SCORE
    ELSE round1(confidence)

\* analizer.py:286 and 297-301: the score of a result that went through
\* the resolver.
accuracy_score(confidence, medications) ==
  IF medications = {} /\ Below(confidence, CONF_FLOOR)
    THEN LOW_SCORE
    ELSE round1(confidence)

\* analizer.py:297-303: the medications of such a result.
final_medications(medications, snippet) ==
  IF medications = {}
    THEN <<(<<"Could not extract medicine names. Snippet: ">> \o snippet)>>
    ELSE sorted(medications)

\* Variant: only emptiness is tested before the interaction check.
interaction_step_unguarded(medications) ==
  IF medications # <<>>
    THEN [checked |-> TRUE, interactions |-> check_drug_interactions(medications)]
    ELSE [checked |-> FALSE, interactions |-> <<>>]

\* analizer.py:306-307: checked tells whether check_drug_interactions was
\* called.
interaction_step(medications) ==
  IF medications # <<>> /\ ~startswith(medications[1], "Could not extract")
    THEN [checked |-> TRUE, interactions |-> check_drug_interactions(medications)]
    ELSE [checked |-> FALSE, interactions |-> <<>>]

\* analizer.py:311-314: the handler changes the medications only.
except_handler(results_dict, e) ==
  [results_dict EXCEPT !.medications = <<(<<"Critical Analysis Error: ", e>>)>>]

\* process.extractOne is reached for some word of the text
reaches_extractOne(text) == \E w \in words_of(text) : eligible(w)

\* analizer.py:277-314, from the return of extract_text_paddle_single_pass
\* (ret) on.  fuzz_fault: the similarity search raises when it is called.
\* The result is the dictionary returned and what the call went through.
analyze_from_ocr(ret, fuzz_fault) ==
  LET nothing == [resolver_ran |-> FALSE, resolved |-> {}, fault |-> FALSE,
                  checked |-> FALSE, result |-> results_dict0]
  IN
  IF ret.raised
    THEN [nothing EXCEPT !.fault = TRUE,
            !.result = except_handler(results_dict0, "ocr failure")]
  ELSE IF \/ startswith(ret.text, "OCR Engine Failed")
          \/ startswith(ret.text, "PaddleOCR Error")
    THEN [nothing EXCEPT !.result =
            [results_dict0 EXCEPT !.medications = <<ret.text>>,
                                  !.accuracy_score = 0]]
  ELSE
    LET snippet == raw_text_snippet(ret.text)
        d1 == [results_dict0 EXCEPT !.raw_text_snippet = snippet,
                                    !.accuracy_score = round1(ret.confidence)]
    IN IF fuzz_fault /\ reaches_extractOne(ret.text)
         THEN [nothing EXCEPT !.fault = TRUE,
                 !.result = except_handler(d1, "similarity search failure")]
         ELSE
           LET corrected_text == apply_medical_dictionary_correction(ret.text)
               medications == extract_medications_from_text(corrected_text)
               meds == final_medications(medications, snippet)
               step == interaction_step(meds)
           IN [resolver_ran |-> TRUE, resolved |-> medications,
               fault |-> FALSE, checked |-> step.checked,
               result |->
                 [d1 EXCEPT !.medications = meds,
                            !.accuracy_score =
                               accuracy_score(ret.confidence, medications),
                            !.interactions = step.interactions]]

\* ------------------------------------------------------------------- state
VARIABLES
  CUSTOM_OCR_READER,   \* analizer.py:14, the cached engine handle
  READER_INITIALIZED,  \* analizer.py:15
  pc,                  \* where each thread is in analyze_prescription_image
  reader,              \* the handle initialize_ocr_reader returned to a thread
  constructions,       \* history: number of PaddleOCR(...) calls so far
  first_attempt,       \* history: "none", or how the first of them ended
  cache_hits,          \* history: number of returns at analizer.py:26
  calls,               \* number of calls started
  response             \* the result being returned, with what the call met

VARIABLES
  medications_in,      \* analizer.py:230, the argument of check_drug_interactions
  warnings_out,        \* analizer.py:254, the list it returned
  ci_done              \* whether it has returned

VARIABLES
  uploads,             \* the files in the uploads directory
  file_location,       \* main.py:132, of the request being served
  created,             \* history: files the latest request created
  removed,             \* history: files the latest request removed
  status_code          \* the status the latest request was answered with

VARIABLES
  users,               \* the rows of table users, in insertion order
  spc,                 \* where each signup request is in signup_user
  email,               \* main.py:219, per request
  next_uid,            \* main.py:246, per request
  signups,             \* number of signup requests started
  signup_log           \* history: how the last signup of each slot ended

analyzer_vars == <<CUSTOM_OCR_READER, READER_INITIALIZED, pc, reader,
                   constructions, first_attempt, cache_hits, calls, response>>
ci_vars == <<medications_in, warnings_out, ci_done>>
file_vars == <<uploads, file_location, created, removed, status_code>>
db_vars == <<users, spc, email, next_uid, signups, signup_log>>

vars == <<analyzer_vars, ci_vars, file_vars, db_vars>>

NoEngine == [raises |-> FALSE, lines |-> <<>>]
NoRet == [raised |-> FALSE, text |-> <<>>, confidence |-> ZERO]

NoResponse ==
  [valid |-> FALSE, seq |-> 0, file_exists |-> FALSE, reader |-> None,
   ocr_called |-> FALSE, engine |-> NoEngine, ret |-> NoRet,
   resolver_ran |-> FALSE, resolved |-> {}, fault |-> FALSE,
   checked |-> FALSE, result |-> results_dict0]

\* main.py:219: data.get('email') of a body without an email
NoEmail == "None"

NoSignup == [status |-> 0, uid |-> None, reused |-> FALSE, stored |-> FALSE]

\* No call of check_drug_interactions is under way.
InitInteractionsIdle ==
  /\ medications_in = <<>>
  /\ warnings_out = <<>>
  /\ ci_done = FALSE

\* main.py:107-108: the uploads directory starts empty.
InitFiles ==
  /\ uploads = {}
  /\ file_location = ""
  /\ created = 0
  /\ removed = 0
  /\ status_code = 0

\* main.py:52-88: create_db_table leaves a new table users empty.
InitDb ==
  /\ users = <<>>
  /\ spc = [t \in Threads |-> "idle"]
  /\ email = [t \in Threads |-> NoEmail]
  /\ next_uid = [t \in Threads |-> None]
  /\ signups = 0
  /\ signup_log = [t \in Threads |-> NoSignup]

\* analizer.py:14-15: the module is loaded and no call has started.
InitAnalyzer ==
  /\ CUSTOM_OCR_READER = None
  /\ READER_INITIALIZED = FALSE
  /\ pc = [t \in Threads |-> "idle"]
  /\ reader = [t \in Threads |-> None]
  /\ constructions = 0
  /\ first_attempt = "none"
  /\ cache_hits = 0
  /\ calls = 0
  /\ response = NoResponse

Init ==
  /\ InitAnalyzer
  /\ InitInteractionsIdle
  /\ InitFiles
  /\ InitDb

\* analizer.py:259-272: a call starts; a missing file ends it at once.
\* (response holds one result at a time: a call that returns waits until the
\* previous result is taken, which orders returns and nothing else.)
Call(t) ==
  /\ pc[t] = "idle"
  /\ calls < MaxCalls
  /\ calls' = calls + 1
  /\ \E file_exists \in BOOLEAN :
       IF ~file_exists
         THEN /\ ~response.valid
              /\ response' =
                   [NoResponse EXCEPT !.valid = TRUE, !.seq = calls + 1,
                      !.result = [results_dict0 EXCEPT !.medications =
                          <<(<<"Error: Input file not found on server.">>)>>]]
              /\ pc' = [pc EXCEPT ![t] = "respond"]
         ELSE /\ pc' = [pc EXCEPT ![t] = "init"]
              /\ response' = response
  /\ UNCHANGED <<CUSTOM_OCR_READER, READER_INITIALIZED, reader, constructions,
                 first_attempt, cache_hits>>
  /\ UNCHANGED <<ci_vars, file_vars, db_vars>>

\* main.py:128-140: the endpoint is a coroutine that calls the analyzer
\* without awaiting, so the event loop serves one request at a time.
Serve(t) ==
  /\ \A u \in Threads : pc[u] = "idle"
  /\ Call(t)

\* analizer.py:25-26
InitCheck(t) ==
  /\ pc[t] = "init"
  /\ IF READER_INITIALIZED
       THEN /\ reader' = [reader EXCEPT ![t] = CUSTOM_OCR_READER]
            /\ cache_hits' = cache_hits + 1
            /\ pc' = [pc EXCEPT ![t] = "ocr"]
       ELSE /\ reader' = reader
            /\ cache_hits' = cache_hits
            /\ pc' = [pc EXCEPT ![t] = "construct"]
  /\ UNCHANGED <<CUSTOM_OCR_READER, READER_INITIALIZED, constructions,
                 first_attempt, calls, response>>
  /\ UNCHANGED <<ci_vars, file_vars, db_vars>>

\* analizer.py:28-35: PaddleOCR(lang='en') returns a new engine or raises.
Construct(t) ==
  /\ pc[t] = "construct"
  /\ \E ok \in BOOLEAN :
       /\ CUSTOM_OCR_READER' = IF ok THEN constructions + 1 ELSE None
       /\ first_attempt' = IF first_attempt = "none"
                             THEN (IF ok THEN "ok" ELSE "failed")
                             ELSE first_attempt
  /\ constructions' = constructions + 1
  /\ pc' = [pc EXCEPT ![t] = "publish"]
  /\ UNCHANGED <<READER_INITIALIZED, reader, cache_hits, calls, response>>
  /\ UNCHANGED <<ci_vars, file_vars, db_vars>>

\* Variant: the flag is set only when the construction succeeded.
Publish_retry(t) ==
  /\ pc[t] = "publish"
  /\ READER_INITIALIZED' = (CUSTOM_OCR_READER # None)
  /\ reader' = [reader EXCEPT ![t] = CUSTOM_OCR_READER]
  /\ pc' = [pc EXCEPT ![t] = "ocr"]
  /\ UNCHANGED <<CUSTOM_OCR_READER, constructions, first_attempt, cache_hits,
                 calls, response>>
  /\ UNCHANGED <<ci_vars, file_vars, db_vars>>

\* analizer.py:37-38
Publish(t) ==
  /\ pc[t] = "publish"
  /\ READER_INITIALIZED' = TRUE
  /\ reader' = [reader EXCEPT ![t] = CUSTOM_OCR_READER]
  /\ pc' = [pc EXCEPT ![t] = "ocr"]
  /\ UNCHANGED <<CUSTOM_OCR_READER, constructions, first_attempt, cache_hits,
                 calls, response>>
  /\ UNCHANGED <<ci_vars, file_vars, db_vars>>

\* analizer.py:159-182 and 277-314: recognition and the rest of the call.
Analyze(t) ==
  /\ pc[t] = "ocr"
  /\ ~response.valid
  /\ \E engine \in EngineOutcomes, fuzz_fault \in BOOLEAN :
       LET ret == extract_text_paddle_single_pass(reader[t], engine)
           out == analyze_from_ocr(ret, fuzz_fault)
       IN response' =
            [valid |-> TRUE, seq |-> calls, file_exists |-> TRUE,
             reader |-> reader[t], ocr_called |-> reader[t] # None,
             engine |-> IF reader[t] # None THEN engine ELSE NoEngine,
             ret |-> ret, resolver_ran |-> out.resolver_ran,
             resolved |-> out.resolved, fault |-> out.fault,
             checked |-> out.checked, result |-> out.result]
  /\ pc' = [pc EXCEPT ![t] = "respond"]
  /\ reader' = [reader EXCEPT ![t] = None]
  /\ UNCHANGED <<CUSTOM_OCR_READER, READER_INITIALIZED, constructions,
                 first_attempt, cache_hits, calls>>
  /\ UNCHANGED <<ci_vars, file_vars, db_vars>>

\* main.py:140-146: the endpoint takes the result and answers the request.
Respond(t) ==
  /\ pc[t] = "respond"
  /\ response' = NoResponse
  /\ pc' = [pc EXCEPT ![t] = "idle"]
  /\ UNCHANGED <<CUSTOM_OCR_READER, READER_INITIALIZED, reader, constructions,
                 first_attempt, cache_hits, calls>>
  /\ UNCHANGED <<ci_vars, file_vars, db_vars>>

\* Requests served one at a time, as main.py serves them.
Next ==
  \E t \in Threads :
    \/ Serve(t)
    \/ InitCheck(t)
    \/ Construct(t)
    \/ Publish(t)
    \/ Analyze(t)
    \/ Respond(t)

Spec == Init /\ [][Next]_vars

\* Requests that call the analyzer from concurrent threads.
NextThreads ==
  \E t \in Threads :
    \/ Call(t)
    \/ InitCheck(t)
    \/ Construct(t)
    \/ Publish(t)
    \/ Analyze(t)
    \/ Respond(t)

SpecThreads == Init /\ [][NextThreads]_vars

\* ---------------------------------------- check_drug_interactions on its own
\* Names a caller can pass: lexicon keys, a drug whose name contains
\* 'statin', and the two companions the rule table names.
MedNames ==
  {"Ibuprofen", "Lisinopril", "Metformin", "Atorvastatin", "Grapefruit",
   "Alcohol"}

MedLists == SeqsUpTo({<<name>> : name \in MedNames}, MaxMeds)

InitInteractions ==
  /\ InitAnalyzer
  /\ InitFiles
  /\ InitDb
  /\ medications_in \in MedLists
  /\ warnings_out = <<>>
  /\ ci_done = FALSE

\* analizer.py:230-254
CheckInteractions ==
  /\ ~ci_done
  /\ warnings_out' = check_drug_interactions(medications_in)
  /\ ci_done' = TRUE
  /\ UNCHANGED <<medications_in, analyzer_vars, file_vars, db_vars>>

NextInteractions == CheckInteractions

SpecInteractions == InitInteractions /\ [][NextInteractions]_vars

\* ------------------------------------------- the analysis endpoint of main.py
FileNames == {"a.png", "b.png"}

\* How saving the upload ends (main.py:136-137): the file is written, open()
\* raises and no file exists, or the copy raises after open() created it.
SaveOutcomes == {"saved", "open_raised", "copy_raised"}

\* main.py:132-140: a request arrives, the upload is saved under its own
\* name and the analyzer is called with that path, which exists.  The
\* endpoint is a coroutine without an await, so it starts when no other
\* request is being served.
Upload(t) ==
  /\ \A u \in Threads : pc[u] = "idle"
  /\ calls < MaxCalls
  /\ calls' = calls + 1
  /\ \E name \in FileNames, save \in SaveOutcomes :
       /\ file_location' = name
       /\ uploads' = IF save = "open_raised" THEN uploads
                                              ELSE uploads \cup {name}
       /\ created' = IF save = "open_raised" \/ name \in uploads THEN 0 ELSE 1
       /\ pc' = [pc EXCEPT ![t] = IF save = "saved" THEN "init" ELSE "except"]
  /\ removed' = 0
  /\ status_code' = 0
  /\ UNCHANGED <<CUSTOM_OCR_READER, READER_INITIALIZED, reader, constructions,
                 first_attempt, cache_hits, response>>
  /\ UNCHANGED <<ci_vars, db_vars>>

\* Variant: the file is removed after a response was built, not in finally.
Finish_on_success(t) ==
  /\ pc[t] \in {"respond", "except"}
  /\ \E raised \in BOOLEAN :
       LET ok == pc[t] = "respond" /\ ~raised
       IN /\ status_code' = IF ok THEN 200 ELSE 500
          /\ IF ok /\ file_location \in uploads
               THEN /\ uploads' = uploads \ {file_location}
                    /\ removed' = removed + 1
               ELSE UNCHANGED <<uploads, removed>>
  /\ response' = NoResponse
  /\ pc' = [pc EXCEPT ![t] = "idle"]
  /\ file_location' = ""
  /\ UNCHANGED <<CUSTOM_OCR_READER, READER_INITIALIZED, reader, constructions,
                 first_attempt, cache_hits, calls, created>>
  /\ UNCHANGED <<ci_vars, db_vars>>

\* main.py:143-156: the response is built (200), or an exception raised by
\* the save or while building the response is answered (500); in both cases
\* the finally clause removes the file when it exists.
Finish(t) ==
  /\ pc[t] \in {"respond", "except"}
  /\ \E raised \in BOOLEAN :
       LET ok == pc[t] = "respond" /\ ~raised
       IN status_code' = IF ok THEN 200 ELSE 500
  /\ IF file_location \in uploads
       THEN /\ uploads' = uploads \ {file_location}
            /\ removed' = removed + 1
       ELSE UNCHANGED <<uploads, removed>>
  /\ response' = NoResponse
  /\ pc' = [pc EXCEPT ![t] = "idle"]
  /\ file_location' = ""
  /\ UNCHANGED <<CUSTOM_OCR_READER, READER_INITIALIZED, reader, constructions,
                 first_attempt, cache_hits, calls, created>>
  /\ UNCHANGED <<ci_vars, db_vars>>

NextEndpoint ==
  \E t \in Threads :
    \/ Upload(t)
    \/ InitCheck(t)
    \/ Construct(t)
    \/ Publish(t)
    \/ Analyze(t)
    \/ Finish(t)

SpecEndpoint == Init /\ [][NextEndpoint]_vars

\* --------------------------------------------------- the signup of main.py
Emails == {"a@example.org", "b@example.org", "c@example.org"}

RECURSIVE max_of(_)
max_of(rows) ==
  IF rows = <<>> THEN 0
  ELSE LET rest == max_of(Tail(rows))
       IN IF Head(rows).uid > rest THEN Head(rows).uid ELSE rest

\* main.py:90-96.  SELECT MAX(uid) of an empty table is NULL, read as 0.
get_next_uid(rows) ==
  LET max_uid == max_of(rows)
  IN IF max_uid < STARTING_UID THEN STARTING_UID ELSE max_uid + 1

\* main.py:61-71: uid INTEGER UNIQUE NOT NULL
uid_taken(rows, uid) == \E i \in 1..Len(rows) : rows[i].uid = uid

\* main.py:61-71: email TEXT UNIQUE NOT NULL
email_refused(rows, e) ==
  \/ e = NoEmail
  \/ \E i \in 1..Len(rows) : rows[i].email = e

\* main.py:209-233: the body is read; passwords that differ end the request
\* with 400 before the table is touched.
Signup(t) ==
  /\ spc[t] = "idle"
  /\ signups < MaxSignups
  /\ signups' = signups + 1
  /\ \E e \in Emails \cup {NoEmail}, passwords_match \in BOOLEAN :
       /\ email' = [email EXCEPT ![t] = e]
       /\ IF passwords_match
            THEN /\ spc' = [spc EXCEPT ![t] = "read"]
                 /\ signup_log' = [signup_log EXCEPT ![t] = NoSignup]
            ELSE /\ spc' = spc
                 /\ signup_log' =
                      [signup_log EXCEPT ![t] = [NoSignup EXCEPT !.status = 400]]
  /\ UNCHANGED <<users, next_uid>>
  /\ UNCHANGED <<analyzer_vars, ci_vars, file_vars>>

\* main.py:246: next_uid = get_next_uid(db)
ReadUid(t) ==
  /\ spc[t] = "read"
  /\ next_uid' = [next_uid EXCEPT ![t] = get_next_uid(users)]
  /\ spc' = [spc EXCEPT ![t] = "insert"]
  /\ UNCHANGED <<users, email, signups, signup_log>>
  /\ UNCHANGED <<analyzer_vars, ci_vars, file_vars>>

\* Variant: the table has no UNIQUE constraint on uid.
Insert_uid_not_unique(t) ==
  /\ spc[t] = "insert"
  /\ \E failed \in BOOLEAN :
       LET reused == uid_taken(users, next_uid[t])
           integrity == email_refused(users, email[t])
           stored == ~failed /\ ~integrity
       IN /\ users' = IF stored
                         THEN Append(users, [uid |-> next_uid[t],
                                             email |-> email[t]])
                         ELSE users
          /\ signup_log' =
               [signup_log EXCEPT ![t] =
                  [status |-> IF failed THEN 500
                              ELSE IF integrity THEN 409 ELSE 201,
                   uid |-> next_uid[t], reused |-> reused, stored |-> stored]]
  /\ spc' = [spc EXCEPT ![t] = "idle"]
  /\ next_uid' = [next_uid EXCEPT ![t] = None]
  /\ UNCHANGED <<email, signups>>
  /\ UNCHANGED <<analyzer_vars, ci_vars, file_vars>>

\* main.py:248-272: INSERT and commit.  A row that breaks a UNIQUE or NOT NULL
\* constraint raises IntegrityError (409) and any other failure of the
\* database is answered with 500; neither stores a row.
Insert(t) ==
  /\ spc[t] = "insert"
  /\ \E failed \in BOOLEAN :
       LET reused == uid_taken(users, next_uid[t])
           integrity == reused \/ email_refused(users, email[t])
           stored == ~failed /\ ~integrity
       IN /\ users' = IF stored
                         THEN Append(users, [uid |-> next_uid[t],
                                             email |-> email[t]])
                         ELSE users
          /\ signup_log' =
               [signup_log EXCEPT ![t] =
                  [status |-> IF failed THEN 500
                              ELSE IF integrity THEN 409 ELSE 201,
                   uid |-> next_uid[t], reused |-> reused, stored |-> stored]]
  /\ spc' = [spc EXCEPT ![t] = "idle"]
  /\ next_uid' = [next_uid EXCEPT ![t] = None]
  /\ UNCHANGED <<email, signups>>
  /\ UNCHANGED <<analyzer_vars, ci_vars, file_vars>>

\* Signup requests of several server processes on one database file.
NextSignup ==
  \E t \in Threads :
    \/ Signup(t)
    \/ ReadUid(t)
    \/ Insert(t)

SpecSignup == Init /\ [][NextSignup]_vars

\* ------------------------------------------------------------------ claims
res == response.result

\* The literals the code puts in medications[0] of a result it could not
\* complete.
ErrorMarkers ==
  {"Error: Input file not found on server.",
   "OCR Engine Failed Initialization.",
   "PaddleOCR Error: ",
   "Critical Analysis Error: "}

HasErrorMarker(d) ==
  /\ d.medications # <<>>
  /\ d.medications[1] # <<>>
  /\ d.medications[1][1] \in ErrorMarkers

\* The call met a failure: missing file, no engine, a failing OCR pass, or an
\* exception in a later stage.
MetFailure ==
  \/ ~response.file_exists
  \/ response.reader = None
  \/ response.engine.raises
  \/ response.fault

\* The capitalized canonical names of the lexicon
CanonicalNames == {capitalize(<<key>>) : key \in DOMAIN MEDICATION_DICT}

\* The confidence the OCR step returned is a float below 70.0
ConfidenceUnder70 ==
  LET c == response.ret.confidence
  IN c.sum < 700 * c.n \/ (c.sum = 700 * c.n /\ c.short)

\* The engine ran and recognized no line
ZeroLines ==
  /\ response.ocr_called
  /\ ~response.engine.raises
  /\ \A i \in 1..Len(response.engine.lines) : ~response.engine.lines[i].wellformed

\* C1: every result returned after a failure (missing file, engine
\* unavailable, OCR pass error, exception in a later stage) has an error
\* marker in medications[0], no interactions and the accuracy score 0.0.
C1_FailureResult ==
  response.valid /\ MetFailure =>
    /\ HasErrorMarker(res)
    /\ res.interactions = <<>>
    /\ res.accuracy_score = 0

\* C2: over a sequence of calls the engine is constructed at most once; once
\* the flag is set neither the handle nor the number of constructions
\* changes, every call gets the cached handle, and after a failed first
\* attempt the handle stays None.
C2_InitOnce ==
  [][/\ constructions' <= 1
     /\ READER_INITIALIZED =>
          /\ CUSTOM_OCR_READER' = CUSTOM_OCR_READER
          /\ constructions' = constructions
          /\ READER_INITIALIZED'
     /\ \A t \in Threads : pc'[t] = "ocr" => reader'[t] = CUSTOM_OCR_READER'
     /\ first_attempt' = "failed" => CUSTOM_OCR_READER' = None]_vars

\* A later call returned the handle cached by a failed first attempt.
C2_Witness ==
  /\ cache_hits >= 1
  /\ first_attempt = "failed"
  /\ \E t \in Threads : pc[t] = "ocr" /\ reader[t] = None

\* C3: with concurrent first callers the engine is still constructed once,
\* and the handle is not written after READER_INITIALIZED is set.
C3_GuardedInit ==
  [][/\ constructions' <= 1
     /\ READER_INITIALIZED => CUSTOM_OCR_READER' = CUSTOM_OCR_READER]_vars

\* C4: after a failed initialization every call on an existing file, the
\* first and the later ones, returns the engine-unavailable result with
\* score 0.0 and no interactions, and the engine is not constructed again.
C4_EngineUnavailable ==
  response.valid /\ response.file_exists /\ first_attempt = "failed" =>
    /\ res.medications = <<(<<"OCR Engine Failed Initialization.">>)>>
    /\ res.accuracy_score = 0
    /\ res.interactions = <<>>
    /\ constructions = 1

\* A request after the one whose initialization failed got its result.
C4_Witness ==
  /\ response.valid
  /\ response.file_exists
  /\ first_attempt = "failed"
  /\ cache_hits >= 1
  /\ response.seq >= 2

\* C5 as claimed: the accuracy score of every result is in [0.0, 99.9].
C5_ScoreAtMost999 ==
  response.valid => res.accuracy_score \in 0..999

\* C5 amended: the accuracy score of every result is in [0.0, 100.0].
C5_ScoreRange ==
  response.valid => res.accuracy_score \in 0..1000

\* A result with more than one line, all at confidence 1.0, and score 100.0
C5_Witness ==
  /\ response.valid
  /\ Len(response.engine.lines) >= 2
  /\ \A i \in 1..Len(response.engine.lines) :
        response.engine.lines[i].conf = 1000
  /\ res.accuracy_score = 1000

\* C6 as claimed: when the resolver finds nothing the score is 35.0 whatever
\* the confidence, and medications is one diagnostic element.
C6_AlwaysLowScore ==
  response.valid /\ response.resolver_ran /\ response.resolved = {} =>
    /\ res.accuracy_score = 350
    /\ Len(res.medications) = 1
    /\ startswith(res.medications[1], "Could not extract")

\* C6 amended: when the resolver finds nothing, medications is one
\* diagnostic element and the score is 35.0 if the confidence is below 70,
\* the confidence rounded to one decimal otherwise.
C6_LowScoreBelowFloor ==
  response.valid /\ response.resolver_ran /\ response.resolved = {} =>
    /\ Len(res.medications) = 1
    /\ startswith(res.medications[1], "Could not extract")
    /\ ConfidenceUnder70 => res.accuracy_score = 350
    /\ ~ConfidenceUnder70 =>
         2 * response.ret.confidence.n * res.accuracy_score
           \in (2 * response.ret.confidence.sum - response.ret.confidence.n + 1)
               .. (2 * response.ret.confidence.sum + response.ret.confidence.n)

\* Nothing resolved at a confidence of exactly 70: the score is 70.0
C6_Witness ==
  /\ response.valid
  /\ response.resolver_ran
  /\ response.resolved = {}
  /\ response.ret.text # <<>>
  /\ response.ret.confidence.sum = 700 * response.ret.confidence.n
  /\ ~ConfidenceUnder70
  /\ res.accuracy_score = 700

\* C7 as claimed: with a medication found the score is the baseline plus 40
\* capped at 90 when the baseline is below 70, the baseline otherwise.
C7_Boost ==
  response.valid /\ response.resolver_ran /\ response.resolved # {} =>
    LET c == response.ret.confidence
        baseline == (2 * c.sum + c.n) \div (2 * c.n)
    IN IF ConfidenceUnder70
         THEN res.accuracy_score = (IF baseline + 400 > 900 THEN 900 ELSE baseline + 400)
         ELSE res.accuracy_score = baseline

\* C7 amended: with a medication found the score is the baseline (the OCR
\* confidence rounded to one decimal), below 70 as well as from 70 on.
C7_Baseline ==
  response.valid /\ response.resolver_ran /\ response.resolved # {} =>
    LET c == response.ret.confidence
    IN 2 * c.n * res.accuracy_score
         \in (2 * c.sum - c.n + 1) .. (2 * c.sum + c.n)

\* A medication found at confidence 50: the score is 50.0
C7_Witness ==
  /\ response.valid
  /\ response.resolver_ran
  /\ response.resolved # {}
  /\ ConfidenceUnder70
  /\ response.ret.confidence.sum = 500 * response.ret.confidence.n
  /\ res.accuracy_score = 500

\* C8 as claimed: a recognition failure on an OCR pass does not fail the
\* request; the lines of another pass go through the pipeline.
C8_PassFailureAbsorbed ==
  response.valid /\ response.ocr_called /\ response.engine.raises =>
    /\ ~HasErrorMarker(res)
    /\ response.resolver_ran

\* C8 amended: there is one OCR pass; a recognition failure on it is caught
\* in the pass and ends the request with the "PaddleOCR Error" result, score
\* 0.0 and no interactions, without going through the later stages.
C8_PassFailureEndsRequest ==
  response.valid /\ response.ocr_called /\ response.engine.raises =>
    /\ Len(res.medications) = 1
    /\ startswith(res.medications[1], "PaddleOCR Error")
    /\ res.accuracy_score = 0
    /\ res.interactions = <<>>
    /\ ~response.resolver_ran
    /\ ~response.fault

\* The engine was available and its pass raised
C8_Witness ==
  /\ response.valid
  /\ response.ocr_called
  /\ response.reader # None
  /\ response.engine.raises

\* C9: when the engine is available and recognizes no line, the confidence is
\* 0.0 and the result is the "Could not extract" diagnostic with score 35.0
\* and no interactions.
C9_ZeroLines ==
  response.valid /\ ZeroLines =>
    /\ response.ret.confidence.sum = 0
    /\ response.ret.text = <<>>
    /\ Len(res.medications) = 1
    /\ startswith(res.medications[1], "Could not extract")
    /\ res.accuracy_score = 350
    /\ res.interactions = <<>>

\* The engine returned no line at all
C9_Witness ==
  /\ response.valid
  /\ ZeroLines
  /\ response.engine.lines = <<>>
  /\ response.resolver_ran

\* C10: a result whose medications is a diagnostic placeholder was not given
\* to check_drug_interactions and has no interactions; a result with
\* interactions has canonical names only.
C10_DiagnosticsNotChecked ==
  response.valid =>
    /\ (HasErrorMarker(res) \/ (res.medications # <<>>
                                 /\ startswith(res.medications[1], "Could not extract")))
         => ~response.checked /\ res.interactions = <<>>
    /\ res.interactions # <<>> =>
         \A i \in 1..Len(res.medications) : res.medications[i] \in CanonicalNames

\* A placeholder in which the checker would have found "metformin"
C10_Witness ==
  /\ response.valid
  /\ response.resolver_ran
  /\ response.resolved = {}
  /\ contains(lower(res.medications[1]), "metformin")

\* C11: when the medications of a result are not a diagnostic placeholder,
\* each element is the capitalized form of a key of the lexicon, no element
\* occurs twice, and the sequence is in lexicographic order.
C11_CanonicalSorted ==
  response.valid /\ response.resolver_ran /\ response.resolved # {} =>
    /\ \A i \in 1..Len(res.medications) :
          \E key \in DOMAIN MEDICATION_DICT :
             res.medications[i] = <<UpperFirst(key)>>
    /\ \A i, j \in 1..Len(res.medications) :
          i < j => /\ res.medications[i] # res.medications[j]
                   /\ Rank(res.medications[i][1]) < Rank(res.medications[j][1])

\* A misread name and an alias, read in the reverse of the sorted order
C11_Witness ==
  /\ response.valid
  /\ response.ret.text = <<"lisinopri1", "morning">>
  /\ res.medications = <<(<<"Ibuprofen">>), (<<"Lisinopril">>)>>

\* ---------------------------------------------- claims on the interactions
is_pair_warning(w) == w[1] = "Interaction ("

PairWarnings(ws) == SelectSeq(ws, is_pair_warning)

Occurrences(ws, w) == Cardinality({k \in 1..Len(ws) : ws[k] = w})

Perms(s) ==
  {[i \in 1..Len(s) |-> s[f[i]]] :
     f \in {g \in [1..Len(s) -> 1..Len(s)] :
              \A i, j \in 1..Len(s) : i # j => g[i] # g[j]}}

lower_in == [i \in 1..Len(medications_in) |-> lower(medications_in[i])]

\* The two lowercase names in sorted order, joined by '-'
SortedKey(a, b) ==
  IF Rank(a[1]) <= Rank(b[1]) THEN a \o <<"-">> \o b ELSE b \o <<"-">> \o a

\* Positions i < j of the input whose names form a key of the rule table
Hits ==
  {p \in (1..Len(medications_in)) \X (1..Len(medications_in)) :
     /\ p[1] < p[2]
     /\ SortedKey(lower_in[p[1]], lower_in[p[2]]) \in DOMAIN MOCK_INTERACTIONS}

ExpectedPairWarning(p) ==
  <<"Interaction (", UpperFirst(lower_in[p[1]][1]), " + ",
    UpperFirst(lower_in[p[2]][1]), "): ",
    MOCK_INTERACTIONS[SortedKey(lower_in[p[1]], lower_in[p[2]])]>>

\* The rule a pair warning reports: the two names, in no order, and the message
RuleOf(w) == [names |-> {w[2], w[4]}, message |-> w[6]]

RuleCount(ws, r) ==
  Cardinality({k \in 1..Len(ws) : is_pair_warning(ws[k]) /\ RuleOf(ws[k]) = r})

Rules(ws) == {RuleOf(ws[k]) : k \in {n \in 1..Len(ws) : is_pair_warning(ws[n])}}

MajorAlert ==
  <<"Major Alert: ", MOCK_INTERACTIONS[<<"statin", "-", "grapefruit">>]>>

GeneralWarning ==
  <<"General Warning: ", MOCK_INTERACTIONS[<<"metformin", "-", "alcohol">>]>>

HasStatin(i) == InChunk("statin", lower_in[i][1])

HasMetformin(i) == InChunk("metformin", lower_in[i][1])

Present(name) == \E i \in 1..Len(lower_in) : lower_in[i] = <<name>>

PairsFirst ==
  \A i, j \in 1..Len(warnings_out) :
     i < j /\ is_pair_warning(warnings_out[j]) => is_pair_warning(warnings_out[i])

\* C12 as stated: for every permutation of the input sequence the set of
\* pair-rule warnings returned is identical to the set returned for the input.
C12_SameWarningSet ==
  ci_done =>
    \A p \in Perms(medications_in) :
       Range(PairWarnings(check_drug_interactions(p)))
         = Range(PairWarnings(warnings_out))

\* C12: for every permutation of the input sequence the same pair rules fire
\* the same number of times (same two names, same stored message), while the
\* text of each warning lists the two names in the order of the input.
C12_SameRulesAnyOrder ==
  ci_done =>
    /\ \A p \in Perms(medications_in) :
          LET other == check_drug_interactions(p)
          IN \A r \in Rules(other) \cup Rules(warnings_out) :
                RuleCount(other, r) = RuleCount(warnings_out, r)
    /\ \A k \in 1..Len(warnings_out) :
          is_pair_warning(warnings_out[k]) =>
            \E i, j \in 1..Len(medications_in) :
               /\ i < j
               /\ warnings_out[k][2] = UpperFirst(lower_in[i][1])
               /\ warnings_out[k][4] = UpperFirst(lower_in[j][1])

\* The pair in the reverse of the sorted order: the rule fires and the text
\* names Lisinopril first.
C12_Witness ==
  /\ ci_done
  /\ medications_in = <<(<<"Lisinopril">>), (<<"Ibuprofen">>)>>
  /\ warnings_out =
       <<(<<"Interaction (", "Lisinopril", " + ", "Ibuprofen", "): ",
            MOCK_INTERACTIONS[<<"ibuprofen", "-", "lisinopril">>]>>)>>

\* C13: the pair warnings returned are exactly one per pair of positions
\* i < j whose lowercase names, sorted and joined by '-', are a key of the
\* rule table, and ["Ibuprofen", "Lisinopril"] returns the single warning
\* that carries the 'ibuprofen-lisinopril' message.
C13_OneWarningPerHit ==
  ci_done =>
    LET pw == PairWarnings(warnings_out)
    IN /\ Len(pw) = Cardinality(Hits)
       /\ \A p \in Hits : \E k \in 1..Len(pw) : pw[k] = ExpectedPairWarning(p)
       /\ \A k \in 1..Len(pw) :
             Occurrences(pw, pw[k])
               = Cardinality({p \in Hits : ExpectedPairWarning(p) = pw[k]})
       /\ medications_in = <<(<<"Ibuprofen">>), (<<"Lisinopril">>)>> =>
            warnings_out =
              <<(<<"Interaction (", "Ibuprofen", " + ", "Lisinopril", "): ",
                   MOCK_INTERACTIONS[<<"ibuprofen", "-", "lisinopril">>]>>)>>

\* A hit at positions that are not neighbours, answered with one warning
C13_Witness ==
  /\ ci_done
  /\ medications_in = <<(<<"Ibuprofen">>), (<<"Metformin">>), (<<"Lisinopril">>)>>
  /\ Len(PairWarnings(warnings_out)) = 1
  /\ warnings_out[1][6] = MOCK_INTERACTIONS[<<"ibuprofen", "-", "lisinopril">>]

\* C15 as stated: each keyword warning is returned at most once per call and
\* only when a medication containing the trigger is present and a companion
\* keyword of the rule is present; keyword warnings follow the pair warnings.
C15_KeywordRuleOnce ==
  ci_done =>
    /\ Occurrences(warnings_out, MajorAlert) <= 1
    /\ Occurrences(warnings_out, GeneralWarning) <= 1
    /\ Occurrences(warnings_out, MajorAlert) = 1 =>
         /\ \E i \in 1..Len(lower_in) : HasStatin(i)
         /\ Present("grapefruit") \/ Present("juice")
    /\ Occurrences(warnings_out, GeneralWarning) = 1 =>
         /\ \E i \in 1..Len(lower_in) : HasMetformin(i)
         /\ Present("alcohol")
    /\ PairsFirst

\* C15: the statin warning is returned once for each medication whose name
\* contains 'statin' when 'grapefruit' or 'juice' is in the list, the
\* metformin warning once for each medication whose name contains 'metformin'
\* whatever else is in the list, nothing else is returned besides the pair
\* warnings, and the keyword warnings follow the pair warnings.
C15_KeywordPerMedication ==
  ci_done =>
    /\ Occurrences(warnings_out, MajorAlert) =
         IF Present("grapefruit") \/ Present("juice")
           THEN Cardinality({i \in 1..Len(lower_in) : HasStatin(i)})
           ELSE 0
    /\ Occurrences(warnings_out, GeneralWarning) =
         Cardinality({i \in 1..Len(lower_in) : HasMetformin(i)})
    /\ \A k \in 1..Len(warnings_out) :
          \/ is_pair_warning(warnings_out[k])
          \/ warnings_out[k] \in {MajorAlert, GeneralWarning}
    /\ PairsFirst

\* Metformin listed twice and no alcohol: the warning is returned twice.
C15_Witness ==
  /\ ci_done
  /\ medications_in = <<(<<"Metformin">>), (<<"Metformin">>)>>
  /\ warnings_out = <<GeneralWarning, GeneralWarning>>

\* -------------------------------------------------- claims on the endpoint
\* C14: a request creates at most one file and never removes more than it
\* created; when the request has completed, on the 200 path and on every 500
\* path, it has removed what it created; every file in the uploads directory
\* is the file of a request still being served, so none is left between
\* requests.
C14_FileRemovedOnce ==
  /\ created <= 1
  /\ removed <= created
  /\ \A f \in uploads :
        f = file_location /\ \E t \in Threads : pc[t] # "idle"
  /\ (\A t \in Threads : pc[t] = "idle") =>
        /\ removed = created
        /\ uploads = {}

\* A request whose save raised after the file was created has been answered
\* with 500 and has removed the file.
C14_Witness ==
  /\ \A t \in Threads : pc[t] = "idle"
  /\ status_code = 500
  /\ created = 1
  /\ removed = 1
  /\ uploads = {}

\* ---------------------------------------------------- claims on the signup
\* C16: the uids of the stored rows are at least 10000 and strictly increase
\* in the order the rows were stored, so that no two rows share a uid and
\* each signup that stored a row stored a uid greater than every uid stored
\* before; a signup whose uid was already stored has stored nothing.
C16_UidsUniqueIncreasing ==
  /\ \A i \in 1..Len(users) : users[i].uid >= STARTING_UID
  /\ \A i, j \in 1..Len(users) : i < j => users[i].uid < users[j].uid
  /\ \A t \in Threads : signup_log[t].reused => ~signup_log[t].stored

\* Two signups read the same next uid; the later INSERT was refused with two
\* rows already stored.
C16_Witness ==
  /\ Len(users) >= 2
  /\ \E t \in Threads :
        /\ signup_log[t].reused
        /\ signup_log[t].status = 409
        /\ email[t] # NoEmail
        /\ \A i \in 1..Len(users) : users[i].email # email[t]

====
